---- MODULE Spec2Model ----
(***************************************************************************)
(* Model of tools/mk_combined_img.py: one run of main() over a partition   *)
(* manifest.  The external tools (dd, simg2img, sgdisk) are modelled by    *)
(* what the command lines used by the script do to the files involved;     *)
(* each invocation may also fail, which aborts the run (check=True).       *)
(*                                                                         *)
(* A manifest line is held in the form line.strip().split() gives it: a    *)
(* sequence of tokens, plus a flag telling that the stripped line starts   *)
(* with "#".  File contents are held per 1 MiB block as tags naming the    *)
(* file the block was read from and the index of the block in it.          *)
(***************************************************************************)
EXTENDS Integers, Sequences, FiniteSets, TLC

VARIABLES configExists, manifest, prebuilt,
          out, gpt, tmpFiles, openFds, nTemp,
          partitions, pc, idx, err, mode, ops

vars == <<configExists, manifest, prebuilt, out, gpt, tmpFiles,
          openFds, nTemp, partitions, pc, idx, err, mode, ops>>

-----------------------------------------------------------------------------
(* Bounds and program constants *)

MaxLines == 2

MiB == 1048576

SectorSize == 512

\* magic = 3978755898 = 0xED26FF3A, as the four bytes of its hex form
SparseMagic == <<237, 38, 255, 58>>

GptTypeCode == "8300"

CeilDiv(a, b) == (a + b - 1) \div b

Max(a, b) == IF a >= b THEN a ELSE b

Reverse(s) == [k \in 1..Len(s) |-> s[Len(s) + 1 - k]]

-----------------------------------------------------------------------------
(* The environment: source files, the process environment, temp names *)

\* os.path.expandvars against the process environment (OUT=out, LBL=userdata)
ExpandVars(tok) ==
    CASE tok = "$OUT/o.img" -> "out/o.img"
      [] tok = "$LBL"       -> "userdata"
      [] OTHER              -> tok

\* int(token): the value, or no value when int() raises ValueError
IntOf(tok) ==
    CASE tok = "-1" -> <<0 - 1>>
      [] tok = "0"  -> <<0>>
      [] tok = "1"  -> <<1>>
      [] tok = "2"  -> <<2>>
      [] tok = "02" -> <<2>>
      [] tok = "3"  -> <<3>>
      [] tok = "4"  -> <<4>>
      [] OTHER      -> << >>

RawHead == <<1, 2, 3, 4>>

SparseHead == <<58, 255, 38, 237>>

\* The files a manifest can name.  head4 is what read(4) returns, rawSize the
\* size of the flat image simg2img writes for a sparse file.
SourceFiles ==
    [p \in {"a.img", "b.img", "c.img", "s.img", "e.img", "out/o.img"} |->
        CASE p = "a.img" -> [size |-> 700, head4 |-> RawHead, rawSize |-> 0]
          [] p = "b.img" -> [size |-> MiB + 1, head4 |-> RawHead, rawSize |-> 0]
          [] p = "c.img" -> [size |-> MiB, head4 |-> <<58, 255>>, rawSize |-> 0]
          [] p = "s.img" -> [size |-> 100, head4 |-> SparseHead,
                             rawSize |-> 2 * MiB]
          [] p = "e.img" -> [size |-> 0, head4 |-> << >>, rawSize |-> 0]
          [] OTHER       -> [size |-> 700, head4 |-> RawHead, rawSize |-> 0]]

TmpNames == <<"/tmp/t1", "/tmp/t2", "/tmp/t3", "/tmp/t4">>

-----------------------------------------------------------------------------
(* Manifests *)

Directive(path, label, num) ==
    [comment |-> FALSE, tokens |-> <<path, label, num>>]

LabelOf(path) ==
    CASE path = "a.img"      -> "system"
      [] path = "b.img"      -> "vendor"
      [] path = "c.img"      -> "boot"
      [] path = "s.img"      -> "$LBL"
      [] path = "e.img"      -> "misc"
      [] path = "gone.img"   -> "data"
      [] OTHER               -> "cache"

LineChoices ==
    { [comment |-> FALSE, tokens |-> << >>],
      [comment |-> TRUE,  tokens |-> <<"#a.img", "system", "1">>],
      [comment |-> FALSE, tokens |-> <<"a.img", "system">>] }
    \cup { Directive(p, LabelOf(p), n) :
             p \in {"a.img", "gone.img"},
             n \in {"-1", "0", "1", "2", "02", "3", "x"} }
    \cup { Directive(p, LabelOf(p), n) :
             p \in {"b.img", "c.img", "s.img", "e.img", "$OUT/o.img"},
             n \in {"1", "2", "3"} }

Manifests == UNION { [1..n -> LineChoices] : n \in 0..MaxLines }

-----------------------------------------------------------------------------
(* parse_input *)

\* first loop: the lines kept as directives
RECURSIVE ParsedLines(_)
ParsedLines(lines) ==
    IF lines = << >> THEN << >>
    ELSE LET line == Head(lines)
             rest == ParsedLines(Tail(lines))
             \* param = os.path.expandvars(param) rebinds the loop variable;
             \* params itself is appended as it was split
             expanded == [k \in 1..Len(line.tokens) |->
                             ExpandVars(line.tokens[k])]
             params == line.tokens
         IN  IF line.tokens = << >> \/ line.comment THEN rest
             ELSE IF Len(params) = 3 THEN <<params>> \o rest
             ELSE rest

SizeByMb(size) == CeilDiv(size, MiB)

NumOutOfRange(num, nLines) == num > nLines \/ num < 0


NumDuplicated(num, used) == num \in used

RECURSIVE InsertByNum(_, _)
InsertByNum(sorted, p) ==
    IF sorted = << >> THEN <<p>>
    ELSE IF p.num < Head(sorted).num THEN <<p>> \o sorted
    ELSE <<Head(sorted)>> \o InsertByNum(Tail(sorted), p)

RECURSIVE SortByNum(_)
SortByNum(ps) ==
    IF ps = << >> THEN << >>
    ELSE InsertByNum(SortByNum(SubSeq(ps, 1, Len(ps) - 1)), ps[Len(ps)])

\* second loop: err is "" when the loop runs to its end
RECURSIVE ParseLoop(_, _, _, _)
ParseLoop(parsed, nLines, used, acc) ==
    IF parsed = << >> THEN [err |-> "", parts |-> acc]
    ELSE LET line == Head(parsed)
             n == IntOf(line[3])
         IN  IF line[1] \notin DOMAIN SourceFiles
                 THEN [err |-> "NoSuchFile", parts |-> << >>]
             ELSE IF n = << >>
                 THEN [err |-> "NotAnInt", parts |-> << >>]
             ELSE IF NumOutOfRange(n[1], nLines)
                 THEN [err |-> "InvalidNumber", parts |-> << >>]
             ELSE IF NumDuplicated(n[1], used)
                 THEN [err |-> "Duplicated", parts |-> << >>]
             ELSE ParseLoop(Tail(parsed), nLines, used \cup {n[1]},
                       Append(acc,
                           [path |-> line[1], label |-> line[2],
                            sizeByMb |-> SizeByMb(SourceFiles[line[1]].size),
                            num |-> n[1],
                            start |-> << >>, end |-> << >>, fd |-> << >>]))

parse_input(lines) ==
    LET r == ParseLoop(ParsedLines(lines), Len(lines), {}, << >>)
    IN  IF r.err # "" THEN r
        ELSE [err |-> "", parts |-> SortByNum(r.parts)]

-----------------------------------------------------------------------------
(* Files and dd *)

NoFile == [exists |-> FALSE, size |-> 0, blocks |-> << >>]

ZeroBlock == [f |-> "/dev/zero", form |-> "stored", k |-> 1]

OldBlock(k) == [f |-> "old", form |-> "stored", k |-> k]

HeadBlock == [f |-> "head.img", form |-> "stored", k |-> 1]

\* the 1 MiB blocks of a file holding `content`, the last one zero-filled
FileBlocks(content, size) ==
    [k \in 1..CeilDiv(size, MiB) |->
        [f |-> content.f, form |-> content.form, k |-> k]]

\* the file a path names: a temporary file, or a source file as stored
FileAt(path, tmp) ==
    IF path \in DOMAIN tmp THEN tmp[path]
    ELSE [size |-> SourceFiles[path].size,
          head4 |-> SourceFiles[path].head4,
          content |-> [f |-> path, form |-> "stored"]]


WrittenBytesNoSync(srcBytes, sync) == srcBytes

\* bytes dd writes for an input of srcBytes bytes read as 1 MiB blocks
WrittenBytes(srcBytes, sync) ==
    IF sync THEN CeilDiv(srcBytes, MiB) * MiB ELSE srcBytes

\* dd if=<src> of=<o> [conv=notrunc][,sync] bs=1024k seek=<seek>
DD(o, srcBlocks, srcBytes, seek, notrunc, sync) ==
    LET base == IF o.exists /\ notrunc THEN o
                ELSE [exists |-> TRUE, size |-> 0, blocks |-> << >>]
        written == WrittenBytes(srcBytes, sync)
        newSize == IF written = 0 THEN base.size
                   ELSE Max(base.size, seek * MiB + written)
        nBlocks == CeilDiv(newSize, MiB)
    IN  [exists |-> TRUE, size |-> newSize,
         blocks |-> [j \in 1..nBlocks |->
            IF j - 1 >= seek /\ j - 1 < seek + Len(srcBlocks)
                THEN srcBlocks[j - seek]
            ELSE IF j <= Len(base.blocks) THEN base.blocks[j]
            ELSE ZeroBlock]]

\* dd of a named file with conv=notrunc,sync at block `seek`
CopyFile(o, path, tmp, seek) ==
    LET file == FileAt(path, tmp)
    IN  DD(o, FileBlocks(file.content, file.size), file.size, seek, TRUE, TRUE)

\* check_sparse: the first four bytes, reversed, against the magic
check_sparse(file) ==
    IF file.head4 = << >> THEN "ValueError"
    ELSE IF Reverse(file.head4) = SparseMagic THEN "sparse"
    ELSE "flat"

StartSector(offset) == offset \div SectorSize


EndSectorNoMinusOne(offset) == offset \div SectorSize

EndSector(offset) == offset \div SectorSize - 1

SeekBlocks(offset) == (offset \div 1024) \div 1024

-----------------------------------------------------------------------------
(* Prebuilt GPT templates: the files under prebuilt/gpt/<s0>_<s1>/ *)

GptPrefix(parts) == <<parts[1].sizeByMb, parts[2].sizeByMb>>

GptHead(prefix) == <<prefix[1], prefix[2], "head.img">>

GptTail(prefix) == <<prefix[1], prefix[2], "head.img">>

\* the branch main() takes after parsing
Shortcut(parts, o, pre) ==
    IF o.exists /\ Len(parts) = 2 THEN "fastExisting"
    ELSE IF Len(parts) = 2
            /\ GptHead(GptPrefix(parts)) \in pre
            /\ GptTail(GptPrefix(parts)) \in pre THEN "fastTemplate"
    ELSE "general"

OldOut == [exists |-> TRUE, size |-> 3 * MiB + 5,
           blocks |-> [k \in 1..4 |-> OldBlock(k)]]

EmptyOut == [exists |-> TRUE, size |-> 0, blocks |-> << >>]

OldEntry == [num |-> 9, start |-> 34, end |-> 100, type |-> GptTypeCode,
             name |-> "old"]

\* the output file and template files found when the run starts
OutConfigs ==
    { <<NoFile, {}>>,
      <<NoFile, {<<1, 2, "head.img">>, <<1, 2, "tail.img">>}>>,
      <<NoFile, {<<1, 1, "head.img">>}>>,
      <<EmptyOut, {}>>,
      <<OldOut, {<<1, 2, "head.img">>, <<1, 2, "tail.img">>}>> }

-----------------------------------------------------------------------------
(* The run *)

Init ==
    /\ configExists \in BOOLEAN
    /\ manifest \in (IF configExists THEN Manifests ELSE {<< >>})
    /\ \E c \in OutConfigs :
          /\ out = c[1]
          /\ prebuilt = c[2]
          /\ gpt = IF c[1] = OldOut THEN {OldEntry} ELSE {}
    /\ tmpFiles = << >>
    /\ openFds = {}
    /\ nTemp = 0
    /\ partitions = << >>
    /\ pc = "start"
    /\ idx = 0
    /\ err = ""
    /\ mode = ""
    /\ ops = << >>

Abort(e) == pc' = "aborted" /\ err' = e

\* main(), lines 121-131: the config file check and parse_input
ParseManifest ==
    /\ pc = "start"
    /\ IF ~configExists
          THEN Abort("InvalidConfig") /\ UNCHANGED partitions
          ELSE LET r == parse_input(manifest)
               IN  IF r.err # ""
                      THEN Abort(r.err) /\ UNCHANGED partitions
                      ELSE /\ partitions' = r.parts
                           /\ pc' = "decide"
                           /\ err' = ""
    /\ UNCHANGED <<configExists, manifest, prebuilt, out, gpt, tmpFiles,
                   openFds, nTemp, idx, mode, ops>>

\* main(), lines 134, 140-145: choose the shortcut or the general path
Decide ==
    /\ pc = "decide"
    /\ mode' = Shortcut(partitions, out, prebuilt)
    /\ pc' = CASE mode' = "fastExisting" -> "fastExisting"
               [] mode' = "fastTemplate" -> "templateHead"
               [] OTHER -> "stub"
    /\ idx' = 1
    /\ UNCHANGED <<configExists, manifest, prebuilt, out, gpt, tmpFiles,
                   openFds, nTemp, partitions, err, ops>>

\* main(), lines 135-139: dd of partition idx at seek=idx
FastExistingCopy ==
    /\ pc = "fastExisting"
    /\ ops' = Append(ops, "copy")
    /\ \E ok \in BOOLEAN :
          IF ok
             THEN /\ out' = CopyFile(out, partitions[idx].path, tmpFiles, idx)
                  /\ idx' = idx + 1
                  /\ pc' = IF idx = 2 THEN "done" ELSE "fastExisting"
                  /\ err' = err
             ELSE Abort("CalledProcessError") /\ UNCHANGED <<out, idx>>
    /\ UNCHANGED <<configExists, manifest, prebuilt, gpt, tmpFiles, openFds,
                   nTemp, partitions, mode>>

\* main(), lines 146-147: the first block of head.img at block 0
TemplateHead ==
    /\ pc = "templateHead"
    /\ ops' = Append(ops, "head")
    /\ \E ok \in BOOLEAN :
          IF ok
             THEN /\ out' = DD(out, <<HeadBlock>>, MiB, 0, TRUE, TRUE)
                  /\ pc' = "templateCopy"
                  /\ err' = err
             ELSE Abort("CalledProcessError") /\ UNCHANGED out
    /\ UNCHANGED <<configExists, manifest, prebuilt, gpt, tmpFiles, openFds,
                   nTemp, partitions, idx, mode>>

TemplateSeek(parts, i) ==
    IF i = 1 THEN 1 ELSE 1 + parts[1].sizeByMb

\* main(), lines 148-151: the two partitions after the head
TemplateCopy ==
    /\ pc = "templateCopy"
    /\ ops' = Append(ops, "copy")
    /\ \E ok \in BOOLEAN :
          IF ok
             THEN /\ out' = CopyFile(out, partitions[idx].path, tmpFiles,
                                     TemplateSeek(partitions, idx))
                  /\ idx' = idx + 1
                  /\ pc' = IF idx = 2 THEN "templateTail" ELSE "templateCopy"
                  /\ err' = err
             ELSE Abort("CalledProcessError") /\ UNCHANGED <<out, idx>>
    /\ UNCHANGED <<configExists, manifest, prebuilt, gpt, tmpFiles, openFds,
                   nTemp, partitions, mode>>

\* main(), lines 152-155: gpt_tail after both partitions, then exit(0)
TemplateTail ==
    /\ pc = "templateTail"
    /\ ops' = Append(ops, "tail")
    /\ \E ok \in BOOLEAN :
          IF ok
             THEN /\ out' = DD(out, <<HeadBlock>>, MiB,
                               1 + partitions[1].sizeByMb
                                 + partitions[2].sizeByMb, TRUE, TRUE)
                  /\ pc' = "done"
                  /\ err' = err
             ELSE Abort("CalledProcessError") /\ UNCHANGED out
    /\ UNCHANGED <<configExists, manifest, prebuilt, gpt, tmpFiles, openFds,
                   nTemp, partitions, idx, mode>>

AfterStub(parts) == IF Len(parts) >= 1 THEN "place" ELSE "pad"

\* main(), line 159: dd if=/dev/zero of=out ibs=1024k count=1
Stub ==
    /\ pc = "stub"
    /\ ops' = Append(ops, "stub")
    /\ \E ok \in BOOLEAN :
          IF ok
             THEN /\ out' = DD(out, <<ZeroBlock>>, MiB, 0, FALSE, FALSE)
                  /\ pc' = AfterStub(partitions)
                  /\ err' = err
             ELSE Abort("CalledProcessError") /\ UNCHANGED out
    /\ UNCHANGED <<configExists, manifest, prebuilt, gpt, tmpFiles, openFds,
                   nTemp, partitions, idx, mode>>

\* main(), lines 162-165: record the start sector, detect the sparse format
BeginPlacement ==
    /\ pc = "place"
    /\ LET kind == check_sparse(FileAt(partitions[idx].path, tmpFiles))
       IN  /\ partitions' = [partitions EXCEPT
                                ![idx].start = <<StartSector(out.size)>>]
           /\ IF kind = "ValueError" THEN Abort("ValueError")
              ELSE /\ pc' = IF kind = "sparse" THEN "unsparse" ELSE "write"
                   /\ err' = err
    /\ UNCHANGED <<configExists, manifest, prebuilt, out, gpt, tmpFiles,
                   openFds, nTemp, idx, mode, ops>>

\* unsparse_partition: mkstemp, simg2img, then the path is the temp file
Unsparse ==
    /\ pc = "unsparse"
    /\ nTemp' = nTemp + 1
    /\ openFds' = openFds \cup {TmpNames[nTemp']}
    /\ ops' = Append(ops, "unsparse")
    /\ LET src == partitions[idx].path
           tmp == TmpNames[nTemp']
       IN  \E ok \in BOOLEAN :
             IF ok
                THEN /\ tmpFiles' = tmpFiles @@ (tmp :>
                           [size |-> SourceFiles[src].rawSize,
                            head4 |-> RawHead,
                            content |-> [f |-> src, form |-> "raw"]])
                     /\ partitions' = [partitions EXCEPT
                                          ![idx].fd = <<tmp>>,
                                          ![idx].path = tmp]
                     /\ pc' = "write"
                     /\ err' = err
                ELSE /\ tmpFiles' = tmpFiles @@ (tmp :>
                           [size |-> 0, head4 |-> << >>,
                            content |-> [f |-> src, form |-> "raw"]])
                     /\ partitions' = [partitions EXCEPT ![idx].fd = <<tmp>>]
                     /\ Abort("CalledProcessError")
    /\ UNCHANGED <<configExists, manifest, prebuilt, out, gpt, idx, mode>>


AfterWriteSkipPad(i, n) == IF i < n THEN "place" ELSE "clear"

AfterWrite(i, n) == IF i < n THEN "place" ELSE "pad"

\* write_partition and main(), lines 170-172
WritePartition ==
    /\ pc = "write"
    /\ ops' = Append(ops, "copy")
    /\ \E ok \in BOOLEAN :
          IF ok
             THEN /\ out' = CopyFile(out, partitions[idx].path, tmpFiles,
                                     SeekBlocks(out.size))
                  /\ partitions' = [partitions EXCEPT
                                       ![idx].end = <<EndSector(out'.size)>>]
                  /\ pc' = AfterWrite(idx, Len(partitions))
                  /\ idx' = IF idx < Len(partitions) THEN idx + 1 ELSE idx
                  /\ err' = err
             ELSE Abort("CalledProcessError")
                  /\ UNCHANGED <<out, partitions, idx>>
    /\ UNCHANGED <<configExists, manifest, prebuilt, gpt, tmpFiles, openFds,
                   nTemp, mode>>

\* main(), lines 177-179: one block of zeros at the end of the image
FinalPadding ==
    /\ pc = "pad"
    /\ ops' = Append(ops, "pad")
    /\ \E ok \in BOOLEAN :
          IF ok
             THEN /\ out' = DD(out, <<ZeroBlock>>, MiB, SeekBlocks(out.size),
                               TRUE, FALSE)
                  /\ pc' = "clear"
                  /\ err' = err
             ELSE Abort("CalledProcessError") /\ UNCHANGED out
    /\ UNCHANGED <<configExists, manifest, prebuilt, gpt, tmpFiles, openFds,
                   nTemp, partitions, idx, mode>>

\* clear_partition_table
ClearTable ==
    /\ pc = "clear"
    /\ ops' = Append(ops, "clear")
    /\ \E ok \in BOOLEAN :
          IF ok
             THEN /\ gpt' = {}
                  /\ pc' = IF Len(partitions) >= 1 THEN "add" ELSE "done"
                  /\ idx' = 1
                  /\ err' = err
             ELSE Abort("CalledProcessError") /\ UNCHANGED <<gpt, idx>>
    /\ UNCHANGED <<configExists, manifest, prebuilt, out, tmpFiles, openFds,
                   nTemp, partitions, mode>>


GptEntryNamedByPath(p) ==
    [num |-> p.num, start |-> p.start[1], end |-> p.end[1],
     type |-> GptTypeCode, name |-> p.path]

\* the entry sgdisk --new/--type/--change-name writes for a partition
GptEntry(p) ==
    [num |-> p.num, start |-> p.start[1], end |-> p.end[1],
     type |-> GptTypeCode, name |-> p.label]

Remove(tmp, name) == [n \in DOMAIN tmp \ {name} |-> tmp[n]]

\* add_partition and main(), lines 186-190
AddPartition ==
    /\ pc = "add"
    /\ ops' = Append(ops, "add")
    /\ \E ok \in BOOLEAN :
          IF ok
             THEN LET p == partitions[idx]
                  IN  /\ gpt' = gpt \cup {GptEntry(p)}
                      /\ IF p.fd # << >>
                            THEN /\ openFds' = openFds \ {p.fd[1]}
                                 /\ tmpFiles' = Remove(tmpFiles, p.path)
                            ELSE UNCHANGED <<openFds, tmpFiles>>
                      /\ pc' = IF idx < Len(partitions) THEN "add" ELSE "done"
                      /\ idx' = IF idx < Len(partitions) THEN idx + 1 ELSE idx
                      /\ err' = err
             ELSE Abort("CalledProcessError")
                  /\ UNCHANGED <<gpt, openFds, tmpFiles, idx>>
    /\ UNCHANGED <<configExists, manifest, prebuilt, out, nTemp, partitions,
                   mode>>

Next ==
    \/ ParseManifest
    \/ Decide
    \/ FastExistingCopy
    \/ TemplateHead
    \/ TemplateCopy
    \/ TemplateTail
    \/ Stub
    \/ BeginPlacement
    \/ Unsparse
    \/ WritePartition
    \/ FinalPadding
    \/ ClearTable
    \/ AddPartition

Spec == Init /\ [][Next]_vars

TypeOK ==
    /\ pc \in {"start", "decide", "fastExisting", "templateHead",
               "templateCopy", "templateTail", "stub", "place", "unsparse",
               "write", "pad", "clear", "add", "done", "aborted"}
    /\ out.size >= 0

-----------------------------------------------------------------------------
(* Properties *)

Terminated == pc \in {"done", "aborted"}

ParseReturned == pc \notin {"start", "aborted"} \/ (pc = "aborted" /\ mode # "")

\* the directive lines of the manifest, by position
DirectiveLines ==
    {k \in 1..Len(manifest) :
        ~manifest[k].comment /\ Len(manifest[k].tokens) = 3}

NumberAt(k) == IntOf(manifest[k].tokens[3])

Declared ==
    {<<NumberAt(k)[1], manifest[k].tokens[2]>> : k \in DirectiveLines}

TableOps == {"clear", "add"}

Placed(p) == p.start # << >> /\ p.end # << >>

\* C1: after a completed general-path run the recorded sector ranges, in
\* ascending partition number, are strictly increasing and do not overlap,
\* and no range ends before it starts.
C1_SectorRangesIncreasing ==
    (pc = "done" /\ mode = "general") =>
        \A i \in 1..Len(partitions) :
            /\ Placed(partitions[i])
            /\ partitions[i].end[1] >= partitions[i].start[1]
            /\ i > 1 => /\ partitions[i].num > partitions[i - 1].num
                        /\ partitions[i].start[1] > partitions[i - 1].end[1]

C1_Witness ==
    /\ pc = "done" /\ mode = "general" /\ Len(partitions) = 2
    /\ partitions[1].fd # << >>
    /\ partitions[2].start[1] > partitions[1].end[1]

\* C2 as stated: whenever the run ends successfully, the entries written
\* after the table was cleared are exactly the numbers and labels the
\* manifest declares.
WrittenEntries ==
    IF \E k \in 1..Len(ops) : ops[k] = "clear"
        THEN {<<e.num, e.name>> : e \in gpt}
        ELSE {}

C2_AsStated == pc = "done" => WrittenEntries = Declared

\* C2 amended: whenever the run ends successfully through the general path,
\* the entries written after the table was cleared are exactly the numbers
\* and labels the manifest declares.
C2_GeneralPathEntries ==
    (pc = "done" /\ mode = "general") => WrittenEntries = Declared

C2_Witness ==
    /\ pc = "done" /\ mode = "general"
    /\ Cardinality(DirectiveLines) = 2
    /\ Cardinality(gpt) = 2

\* C3: when the run has ended, on success or on an abort, no temporary file
\* made for a sparse source is left and no handle of one is open.
C3_TempFilesRemoved ==
    Terminated => (DOMAIN tmpFiles = {} /\ openFds = {})

\* C4: when the parser returns, the numbers are pairwise distinct and lie in
\* [1, number of manifest lines]; a manifest with a directive outside that
\* range, or repeating an earlier number, yields no result.
NumbersValid ==
    /\ \A k \in DirectiveLines :
          /\ NumberAt(k) # << >>
          /\ NumberAt(k)[1] >= 1
          /\ NumberAt(k)[1] <= Len(manifest)
    /\ \A k, l \in DirectiveLines : k # l => NumberAt(k) # NumberAt(l)

C4_NumbersUniqueInRange ==
    ParseReturned =>
        /\ NumbersValid
        /\ \A i \in 1..Len(partitions) :
              partitions[i].num \in 1..Len(manifest)
        /\ \A i, j \in 1..Len(partitions) :
              i # j => partitions[i].num # partitions[j].num

HasDuplicate ==
    \E k, l \in DirectiveLines : k < l /\ NumberAt(k) = NumberAt(l)

AllParseableInRange ==
    \A k \in DirectiveLines :
        /\ NumberAt(k) # << >>
        /\ NumberAt(k)[1] >= 1
        /\ NumberAt(k)[1] <= Len(manifest)

DuplicateAborts ==
    /\ ops = << >>
    /\ pc # "start" => (pc = "aborted" /\ err = "Duplicated")

\* C5: a manifest with two directives of the same number (all numbers
\* parseable and in range) aborts with the duplicate-number error, and
\* nothing is written to the output before that.
C5_AsStated ==
    (configExists /\ HasDuplicate /\ AllParseableInRange) => DuplicateAborts

\* The duplicate check itself works: the property of C5 holds of manifests
\* whose directive lines, up to and including the first one that repeats a
\* number, name source files that exist as written (the size of a line's
\* file is read before its number is checked).
FirstRepeat ==
    CHOOSE l \in DirectiveLines :
        /\ \E k \in DirectiveLines : k < l /\ NumberAt(k) = NumberAt(l)
        /\ \A m \in DirectiveLines :
              (\E k \in DirectiveLines : k < m /\ NumberAt(k) = NumberAt(m))
                  => l <= m

SourcesExistUpToRepeat ==
    \A k \in DirectiveLines :
        k <= FirstRepeat => manifest[k].tokens[1] \in DOMAIN SourceFiles

DuplicateAbortsWhenFilesExist ==
    (configExists /\ HasDuplicate /\ AllParseableInRange
        /\ SourcesExistUpToRepeat) => DuplicateAborts

DuplicateReported ==
    /\ configExists /\ HasDuplicate /\ AllParseableInRange
    /\ SourcesExistUpToRepeat
    /\ pc = "aborted" /\ err = "Duplicated" /\ out.exists

\* C6: the path and the label of every returned descriptor are the
\* environment-expanded forms of the manifest tokens.
C6_TokensExpanded ==
    pc = "decide" =>
        \A k \in DirectiveLines :
            \E i \in 1..Len(partitions) :
                /\ partitions[i].num = NumberAt(k)[1]
                /\ partitions[i].path = ExpandVars(manifest[k].tokens[1])
                /\ partitions[i].label = ExpandVars(manifest[k].tokens[2])

\* C7: a table clear or a table-entry add happens only in the general path,
\* after every partition was copied and has its start and end sector and
\* after the final padding; a fast-path run performs none.
C7_TableAfterPlacement ==
    /\ \A k \in 1..Len(ops) :
          ops[k] \in TableOps =>
              /\ mode = "general"
              /\ \A i \in 1..Len(partitions) : Placed(partitions[i])
              /\ \E j \in 1..(k - 1) : ops[j] = "pad"
              /\ Cardinality({j \in 1..(k - 1) : ops[j] = "copy"})
                     = Len(partitions)
    /\ mode \in {"fastExisting", "fastTemplate"} =>
          \A k \in 1..Len(ops) : ops[k] \notin TableOps

C7_Witness ==
    /\ pc = "add" /\ idx = 2 /\ Len(partitions) = 2
    /\ ops[Len(ops)] = "add"

\* C8: the fast path is taken exactly when there are two partitions and
\* either the destination exists with the expected size or a head/tail
\* template for the two rounded sizes exists.
ExpectedSize(parts) ==
    (2 + parts[1].sizeByMb + parts[2].sizeByMb) * MiB

TemplateExists(parts) ==
    /\ <<parts[1].sizeByMb, parts[2].sizeByMb, "head.img">> \in prebuilt
    /\ <<parts[1].sizeByMb, parts[2].sizeByMb, "tail.img">> \in prebuilt

C8_FastPathOnlyWhenAllowed ==
    (mode # "" /\ ops = << >>) =>
        (mode \in {"fastExisting", "fastTemplate"}
            <=> /\ Len(partitions) = 2
                /\ \/ out.exists /\ out.size = ExpectedSize(partitions)
                   \/ TemplateExists(partitions))

\* C9: after a fast-path run the image holds, where the general algorithm
\* places partition 1 and partition 2, the bytes the general algorithm
\* writes there.
GeneralSource(path) ==
    IF check_sparse(FileAt(path, << >>)) = "sparse"
        THEN [size |-> SourceFiles[path].rawSize,
              content |-> [f |-> path, form |-> "raw"]]
        ELSE [size |-> SourceFiles[path].size,
              content |-> [f |-> path, form |-> "stored"]]

GeneralCompletes ==
    \A i \in 1..2 :
        check_sparse(FileAt(partitions[i].path, << >>)) # "ValueError"

GeneralOffset(i) ==
    IF i = 1 THEN 1
    ELSE 1 + CeilDiv(GeneralSource(partitions[1].path).size, MiB)

C9_FastPathEquivalent ==
    (pc = "done" /\ mode \in {"fastExisting", "fastTemplate"}
        /\ GeneralCompletes) =>
        \A i \in 1..2 :
            LET src == GeneralSource(partitions[i].path)
                blocks == FileBlocks(src.content, src.size)
            IN  \A k \in 1..Len(blocks) :
                    /\ GeneralOffset(i) + k <= Len(out.blocks)
                    /\ out.blocks[GeneralOffset(i) + k] = blocks[k]

\* C10: in the general path the output size read before each placement is a
\* whole number of MiB, each partition's first byte is at output offset
\* startSector * 512, and every placed partition's bytes stay in place.
FileKnown(path) == path \in DOMAIN tmpFiles \/ path \in DOMAIN SourceFiles

C10_CopyAtStartSector ==
    mode = "general" =>
        /\ pc \in {"place", "unsparse", "write", "pad"} => out.size % MiB = 0
        /\ \A i \in 1..Len(partitions) :
              (Placed(partitions[i]) /\ FileKnown(partitions[i].path)) =>
                  LET off == partitions[i].start[1] * SectorSize
                      file == FileAt(partitions[i].path, tmpFiles)
                      blocks == FileBlocks(file.content, file.size)
                  IN  /\ off % MiB = 0
                      /\ \A k \in 1..Len(blocks) :
                            /\ off \div MiB + k <= Len(out.blocks)
                            /\ out.blocks[off \div MiB + k] = blocks[k]

C10_Witness ==
    /\ mode = "general" /\ pc = "pad" /\ Len(partitions) = 2
    /\ partitions[1].sizeByMb = 2
    /\ Placed(partitions[2])

====
